---- MODULE Spec2Model ----
(***************************************************************************)
(* Model of the Soroban micro-tip contract                                 *)
(* (src/contracts/microtip/src/lib.rs).                                    *)
(*                                                                         *)
(* The contract keeps everything in its instance storage: the tip log      *)
(* under the key "tip", one Balance per (user, token) under                *)
(* "balance_<user>_<token>" and one UserProfile per user under             *)
(* "profile_<user>".  Every entry point is one host invocation: it runs    *)
(* to completion or panics, and a panic makes the host discard every       *)
(* write, token movement and event of the invocation.                      *)
(*                                                                         *)
(* Arithmetic is checked: `+=` and `-=` panic when the result leaves the   *)
(* type.  u32 has its width; i128 is modelled at a reduced width           *)
(* (I128_MAX) so that the overflow of an amount is within reach.           *)
(***************************************************************************)
EXTENDS Integers, Sequences, FiniteSets, TLC

\* ------------------------------------------------------------------ bounds
\* largest i128 of the reduced-width model; it also bounds the tip log, as
\* no participant can send or receive more than this in total
I128_MAX == 100
\* the ledger is not closed past this sequence number
MaxLedger == 1
\* units of every token a funded participant holds outside the contract at start
InitFunds == 100

\* --------------------------------------------------------------- constants
\* assert!(message.len() <= 256, ...)
MaxMessageLen == 256

Participants == {"A", "B"}
Tokens == {"T", "U"}
\* env.current_contract_address()
Contract == "contract"
Accounts == Participants \cup {Contract}
\* the participants that hold tokens before the first call
Funded == {"A"}

\* amounts callers pass (negative, zero, small, large)
Amounts == {-1, 0, 40, 100}
\* messages callers pass, abstracted to their length
Messages == {[len |-> MaxMessageLen], [len |-> MaxMessageLen + 1]}

NoError == "none"

VARIABLES
    storage,    \* env.storage().instance(): key -> value
    token_bal,  \* the token contracts' ledgers: token -> account -> units
    ledger,     \* env.ledger(): [sequence, timestamp]
    last,       \* what the caller of the last invocation saw
    accepted    \* history: the send_tip calls that returned, in call order

vars == <<storage, token_bal, ledger, last, accepted>>

\* ------------------------------------------------------------ storage keys
tip_key == <<"tip">>
balance_key(user, token) == <<"balance", user, token>>
profile_key(user) == <<"profile", user>>

has(st, key) == key \in DOMAIN st
set(st, key, val) == [k \in (DOMAIN st) \cup {key} |-> IF k = key THEN val ELSE st[k]]

\* ---------------------------------------------------------------- defaults
DefaultBalance(token) ==
    [total_received |-> 0, available |-> 0, withdrawn |-> 0, token |-> token]

DefaultProfile(now) ==
    [tips_sent |-> 0, tips_received |-> 0, total_sent |-> 0,
     total_received |-> 0, first_interaction |-> now]

\* ------------------------------------------------- execution of one call
\* A context is the state one invocation works on; err # NoError means the
\* invocation has panicked and every later step is skipped.
Ctx(st, bal) ==
    [err |-> NoError, st |-> st, bal |-> bal, events |-> <<>>, ret |-> 0]

Panic(ctx, e) == [ctx EXCEPT !.err = e]

\* the ranges of i128 and u32; `+=` and `-=` panic when they leave them
InI128(x) == x >= -I128_MAX - 1 /\ x <= I128_MAX
InU32(x) == x >= 0 /\ x \div 65536 < 65536

\* token::Client::transfer(from, to, amount); accepts says whether the
\* token contract lets the movement through (authorization, trustline)
transfer(ctx, token, from, to, amount, accepts) ==
    IF ctx.err # NoError THEN ctx
    ELSE IF ~accepts \/ ctx.bal[token][from] < amount
         THEN Panic(ctx, "TransferFailure")
    ELSE [ctx EXCEPT !.bal[token] =
            [a \in Accounts |->
                ctx.bal[token][a]
                - (IF a = from THEN amount ELSE 0)
                + (IF a = to THEN amount ELSE 0)]]

\* mutant: a deposit raises total_received but not available
credit_ReceivedOnly(balance, amount) ==
    [balance EXCEPT !.total_received = @ + amount]

\* mutant: a deposit raises available but not total_received
credit_AvailableOnly(balance, amount) ==
    [balance EXCEPT !.available = @ + amount]

\* balance.total_received += amount; balance.available += amount
credit(balance, amount) ==
    [balance EXCEPT !.total_received = @ + amount, !.available = @ + amount]

\* mutant: a withdrawal is also taken off total_received
debit_FromReceived(balance, amount) ==
    [balance EXCEPT !.available = @ - amount, !.withdrawn = @ + amount,
                    !.total_received = @ - amount]

\* mutant: the withdrawal is taken from available but never recorded
debit_NotRecorded(balance, amount) ==
    [balance EXCEPT !.available = @ - amount]

\* balance.available -= amount; balance.withdrawn += amount
debit(balance, amount) ==
    [balance EXCEPT !.available = @ - amount, !.withdrawn = @ + amount]

update_balance(ctx, user, token, amount, is_deposit) ==
    IF ctx.err # NoError THEN ctx
    ELSE
      LET key == balance_key(user, token)
          balance == IF has(ctx.st, key) THEN ctx.st[key]
                     ELSE DefaultBalance(token)
          upd == IF is_deposit THEN credit(balance, amount) ELSE balance
      IN IF ~InI128(upd.total_received) \/ ~InI128(upd.available)
         THEN Panic(ctx, "ArithmeticOverflow")
         ELSE [ctx EXCEPT !.st = set(ctx.st, key, upd)]

\* mutant: total_sent is overwritten with the amount instead of increased
update_sender_profile_Overwrite(ctx, user, amount, now) ==
    IF ctx.err # NoError THEN ctx
    ELSE
      LET key == profile_key(user)
          profile == IF has(ctx.st, key) THEN ctx.st[key]
                     ELSE DefaultProfile(now)
          upd == [profile EXCEPT !.tips_sent = @ + 1, !.total_sent = amount]
      IN IF ~InU32(upd.tips_sent) \/ ~InI128(upd.total_sent)
         THEN Panic(ctx, "ArithmeticOverflow")
         ELSE [ctx EXCEPT !.st = set(ctx.st, key, upd)]

update_sender_profile(ctx, user, amount, now) ==
    IF ctx.err # NoError THEN ctx
    ELSE
      LET key == profile_key(user)
          profile == IF has(ctx.st, key) THEN ctx.st[key]
                     ELSE DefaultProfile(now)
          upd == [profile EXCEPT !.tips_sent = @ + 1,
                                 !.total_sent = @ + amount]
      IN IF ~InU32(upd.tips_sent) \/ ~InI128(upd.total_sent)
         THEN Panic(ctx, "ArithmeticOverflow")
         ELSE [ctx EXCEPT !.st = set(ctx.st, key, upd)]

\* mutant: every update stamps first_interaction with the current time
update_recipient_profile_Touch(ctx, user, amount, now) ==
    IF ctx.err # NoError THEN ctx
    ELSE
      LET key == profile_key(user)
          profile == IF has(ctx.st, key) THEN ctx.st[key]
                     ELSE DefaultProfile(now)
          upd == [profile EXCEPT !.tips_received = @ + 1,
                                 !.total_received = @ + amount,
                                 !.first_interaction = now]
      IN IF ~InU32(upd.tips_received) \/ ~InI128(upd.total_received)
         THEN Panic(ctx, "ArithmeticOverflow")
         ELSE [ctx EXCEPT !.st = set(ctx.st, key, upd)]

\* mutant: the amount is added but the tip is not counted
update_recipient_profile_NoCount(ctx, user, amount, now) ==
    IF ctx.err # NoError THEN ctx
    ELSE
      LET key == profile_key(user)
          profile == IF has(ctx.st, key) THEN ctx.st[key]
                     ELSE DefaultProfile(now)
          upd == [profile EXCEPT !.total_received = @ + amount]
      IN IF ~InU32(upd.tips_received) \/ ~InI128(upd.total_received)
         THEN Panic(ctx, "ArithmeticOverflow")
         ELSE [ctx EXCEPT !.st = set(ctx.st, key, upd)]

update_recipient_profile(ctx, user, amount, now) ==
    IF ctx.err # NoError THEN ctx
    ELSE
      LET key == profile_key(user)
          profile == IF has(ctx.st, key) THEN ctx.st[key]
                     ELSE DefaultProfile(now)
          upd == [profile EXCEPT !.tips_received = @ + 1,
                                 !.total_received = @ + amount]
      IN IF ~InU32(upd.tips_received) \/ ~InI128(upd.total_received)
         THEN Panic(ctx, "ArithmeticOverflow")
         ELSE [ctx EXCEPT !.st = set(ctx.st, key, upd)]

\* the stored tip log, empty when the key is absent
all_tips(st) == IF has(st, tip_key) THEN st[tip_key] ELSE <<>>

\* mutant: the new tip is put in front of the log
push_tip_Front(ctx, tip) ==
    IF ctx.err # NoError THEN ctx
    ELSE [ctx EXCEPT !.st = set(ctx.st, tip_key, <<tip>> \o all_tips(ctx.st))]

\* tips.push_back(tip); set(tip_key, tips)
push_tip(ctx, tip) ==
    IF ctx.err # NoError THEN ctx
    ELSE [ctx EXCEPT !.st = set(ctx.st, tip_key, Append(all_tips(ctx.st), tip))]

publish(ctx, topic, payload) ==
    IF ctx.err # NoError THEN ctx
    ELSE [ctx EXCEPT !.events =
            Append(@, [topic |-> topic, payload |-> payload])]

\* mutant: the message limit is compared with < instead of <=
send_tip_check_StrictLimit(caller, from, to, amount, message) ==
    IF caller # from THEN "AuthorizationError"
    ELSE IF ~(amount > 0) THEN "InvalidAmountError"
    ELSE IF ~(from # to) THEN "SelfTipError"
    ELSE IF ~(message.len < MaxMessageLen) THEN "MessageTooLongError"
    ELSE NoError

\* the four argument checks of send_tip, in the order the code makes them
send_tip_check(caller, from, to, amount, message) ==
    IF caller # from THEN "AuthorizationError"
    ELSE IF ~(amount > 0) THEN "InvalidAmountError"
    ELSE IF ~(from # to) THEN "SelfTipError"
    ELSE IF ~(message.len <= MaxMessageLen) THEN "MessageTooLongError"
    ELSE NoError

\* mutant: the id keeps only the lowest bit of the sequence after it
tip_id_Truncated(env) == (env.sequence + 1) % 2

\* let tip_id = env.ledger().sequence()
tip_id(env) == env.sequence

\* the body of send_tip; the result is the context the invocation ends in
send_tip(ctx, env, caller, from, to, token, amount, message, accepts) ==
    LET chk == send_tip_check(caller, from, to, amount, message) IN
    IF chk # NoError THEN Panic(ctx, chk)
    ELSE
      LET c1 == transfer(ctx, token, from, Contract, amount, accepts)
          timestamp == env.timestamp
          id == tip_id(env)
          tip == [from |-> from, to |-> to, amount |-> amount,
                  message |-> message, timestamp |-> timestamp,
                  token |-> token]
          c2 == push_tip(c1, tip)
          c3 == update_balance(c2, to, token, amount, TRUE)
          c4 == update_sender_profile(c3, from, amount, env.timestamp)
          c5 == update_recipient_profile(c4, to, amount, env.timestamp)
          c6 == publish(c5, "tip_sent", <<from, to, amount, timestamp>>)
      IN IF c6.err # NoError THEN c6 ELSE [c6 EXCEPT !.ret = id]

\* mutant: withdraw without user.require_auth()
withdraw_check_NoAuth(st, caller, user, token, amount) ==
    IF ~(amount > 0) THEN "InvalidAmountError"
    ELSE IF ~has(st, balance_key(user, token)) THEN "NoBalanceError"
    ELSE IF ~(st[balance_key(user, token)].available >= amount)
         THEN "InsufficientBalanceError"
    ELSE NoError

\* mutant: the requested amount is compared with total_received
withdraw_check_AgainstReceived(st, caller, user, token, amount) ==
    IF caller # user THEN "AuthorizationError"
    ELSE IF ~(amount > 0) THEN "InvalidAmountError"
    ELSE IF ~has(st, balance_key(user, token)) THEN "NoBalanceError"
    ELSE IF ~(st[balance_key(user, token)].total_received >= amount)
         THEN "InsufficientBalanceError"
    ELSE NoError

\* mutant: withdraw without the amount > 0 assertion
withdraw_check_NoAmountCheck(st, caller, user, token, amount) ==
    IF caller # user THEN "AuthorizationError"
    ELSE IF ~has(st, balance_key(user, token)) THEN "NoBalanceError"
    ELSE IF ~(st[balance_key(user, token)].available >= amount)
         THEN "InsufficientBalanceError"
    ELSE NoError

\* the checks of withdraw that precede the balance mutation
withdraw_check(st, caller, user, token, amount) ==
    IF caller # user THEN "AuthorizationError"
    ELSE IF ~(amount > 0) THEN "InvalidAmountError"
    ELSE IF ~has(st, balance_key(user, token)) THEN "NoBalanceError"
    ELSE IF ~(st[balance_key(user, token)].available >= amount)
         THEN "InsufficientBalanceError"
    ELSE NoError

withdraw(ctx, env, caller, user, token, amount, accepts) ==
    LET chk == withdraw_check(ctx.st, caller, user, token, amount) IN
    IF chk # NoError THEN Panic(ctx, chk)
    ELSE
      LET key == balance_key(user, token)
          upd == debit(ctx.st[key], amount)
          c1 == IF ~InI128(upd.available) \/ ~InI128(upd.withdrawn)
                THEN Panic(ctx, "ArithmeticOverflow")
                ELSE [ctx EXCEPT !.st = set(ctx.st, key, upd)]
          c2 == transfer(c1, token, Contract, user, amount, accepts)
      IN publish(c2, "withdrawal", <<user, token, amount, env.timestamp>>)

\* ------------------------------------------------------------------ reads
\* mutant: the default record of a query is written to storage
get_balance_Persist(ctx, user, token) ==
    LET key == balance_key(user, token)
    IN IF has(ctx.st, key) THEN [ctx EXCEPT !.ret = ctx.st[key]]
       ELSE [ctx EXCEPT !.ret = DefaultBalance(token),
                        !.st = set(ctx.st, key, DefaultBalance(token))]

get_balance(ctx, user, token) ==
    LET key == balance_key(user, token)
    IN [ctx EXCEPT !.ret = IF has(ctx.st, key) THEN ctx.st[key]
                           ELSE DefaultBalance(token)]

\* mutant: the profile returned is always built afresh
get_user_profile_Fresh(ctx, env, user) ==
    [ctx EXCEPT !.ret = DefaultProfile(env.timestamp)]

\* mutant: the default profile of a query is written to storage
get_user_profile_Persist(ctx, env, user) ==
    LET key == profile_key(user)
    IN IF has(ctx.st, key) THEN [ctx EXCEPT !.ret = ctx.st[key]]
       ELSE [ctx EXCEPT !.ret = DefaultProfile(env.timestamp),
                        !.st = set(ctx.st, key, DefaultProfile(env.timestamp))]

get_user_profile(ctx, env, user) ==
    LET key == profile_key(user)
    IN [ctx EXCEPT !.ret = IF has(ctx.st, key) THEN ctx.st[key]
                           ELSE DefaultProfile(env.timestamp)]

\* mutant: the tips the user sent are returned too
get_tips_for_user_Either(ctx, user) ==
    [ctx EXCEPT !.ret = SelectSeq(all_tips(ctx.st),
                          LAMBDA tip : tip.to = user \/ tip.from = user)]

get_tips_for_user(ctx, user) ==
    [ctx EXCEPT !.ret = SelectSeq(all_tips(ctx.st), LAMBDA tip : tip.to = user)]

get_total_tips_count(ctx) == [ctx EXCEPT !.ret = Len(all_tips(ctx.st))]

\* ------------------------------------------------------------ the machine
\* mutant: a panicked invocation keeps all it did before the panic
Committed_NoRollback(pre, ctx) == ctx

\* mutant: a panicked invocation keeps its storage writes
Committed_KeepWrites(pre, ctx) ==
    IF ctx.err = NoError THEN ctx
    ELSE [pre EXCEPT !.err = ctx.err, !.st = ctx.st]

\* What the host keeps of an invocation: everything if it returned; if it
\* panicked, the state before the call and the failure.
Committed(pre, ctx) ==
    IF ctx.err = NoError THEN ctx ELSE [pre EXCEPT !.err = ctx.err]

NoCall == [op |-> "none", err |-> NoError, events |-> <<>>]

\* what the caller of a panicked invocation sees: the failure, nothing else
Failed(op, res) == [op |-> op, err |-> res.err, events |-> res.events]

Init ==
    /\ storage = << >>
    /\ token_bal = [t \in Tokens |-> [a \in Accounts |->
                        IF a \in Funded THEN InitFunds ELSE 0]]
    /\ ledger = [sequence |-> 0, timestamp |-> 0]
    /\ last = NoCall
    /\ accepted = << >>

SendTipCall(caller, from, to, token, amount, message, accepts) ==
    LET pre == Ctx(storage, token_bal)
        res == Committed(pre, send_tip(pre, ledger, caller, from, to, token,
                                       amount, message, accepts))
    IN /\ storage' = res.st
       /\ token_bal' = res.bal
       /\ last' = IF res.err # NoError
                   THEN Failed("send_tip", res)
                   ELSE [op |-> "send_tip", err |-> NoError, caller |-> caller,
                         user |-> from, to |-> to, token |-> token,
                         amount |-> amount, message |-> message,
                         events |-> res.events, ret |-> res.ret]
       /\ accepted' = IF res.err # NoError THEN accepted
                       ELSE Append(accepted,
                              [from |-> from, to |-> to, amount |-> amount,
                               message |-> message, token |-> token,
                               timestamp |-> ledger.timestamp,
                               id |-> res.ret])
       /\ UNCHANGED ledger

\* The send_tip calls explored.  An argument the call never gets to read,
\* because an earlier check has already failed, is fixed to one value: two
\* calls that differ only there do the same and report the same.
SendTipCalls ==
    {c \in [caller : Participants, from : Participants, to : Participants,
            token : Tokens, amount : Amounts, message : Messages,
            accepts : BOOLEAN] :
        LET chk == send_tip_check(c.caller, c.from, c.to, c.amount, c.message)
            readsAmount == chk # "AuthorizationError"
            readsTo == readsAmount /\ chk # "InvalidAmountError"
            readsMessage == readsTo /\ chk # "SelfTipError"
            readsToken == chk = NoError
        IN /\ readsAmount \/ c.amount = 0
           /\ readsTo \/ c.to = c.from
           /\ readsMessage \/ c.message.len = MaxMessageLen
           /\ readsToken \/ (c.token = "T" /\ c.accepts)}

SendTip ==
    \E c \in SendTipCalls :
      SendTipCall(c.caller, c.from, c.to, c.token, c.amount, c.message,
                  c.accepts)

WithdrawCall(caller, user, token, amount, accepts) ==
    LET pre == Ctx(storage, token_bal)
        res == Committed(pre, withdraw(pre, ledger, caller, user, token,
                                       amount, accepts))
    IN /\ storage' = res.st
       /\ token_bal' = res.bal
       /\ last' = IF res.err # NoError
                   THEN Failed("withdraw", res)
                   ELSE [op |-> "withdraw", err |-> NoError, caller |-> caller,
                         user |-> user, token |-> token, amount |-> amount,
                         events |-> res.events]
       /\ UNCHANGED <<ledger, accepted>>

\* The withdraw calls explored, with the arguments a call never gets to read
\* fixed to one value.  The checks made before storage is read are the ones
\* that already fail on the empty storage.
WithdrawCalls ==
    {c \in [caller : Participants, user : Participants, token : Tokens,
            amount : Amounts, accepts : BOOLEAN] :
        LET chk == withdraw_check(<< >>, c.caller, c.user, c.token, c.amount)
            readsAmount == chk # "AuthorizationError"
            readsToken == readsAmount /\ chk # "InvalidAmountError"
        IN /\ readsAmount \/ c.amount = 0
           /\ readsToken \/ (c.token = "T" /\ c.accepts)}

Withdraw ==
    \E c \in WithdrawCalls :
      WithdrawCall(c.caller, c.user, c.token, c.amount, c.accepts)

GetBalance ==
    \E user \in Participants, token \in Tokens :
      LET pre == Ctx(storage, token_bal)
          res == Committed(pre, get_balance(pre, user, token))
      IN /\ storage' = res.st
         /\ token_bal' = res.bal
         /\ last' = [op |-> "get_balance", err |-> res.err, user |-> user,
                     token |-> token, events |-> res.events, ret |-> res.ret]
         /\ UNCHANGED <<ledger, accepted>>

GetUserProfile ==
    \E user \in Participants :
      LET pre == Ctx(storage, token_bal)
          res == Committed(pre, get_user_profile(pre, ledger, user))
      IN /\ storage' = res.st
         /\ token_bal' = res.bal
         /\ last' = [op |-> "get_user_profile", err |-> res.err,
                     user |-> user, events |-> res.events, ret |-> res.ret]
         /\ UNCHANGED <<ledger, accepted>>

GetTipsForUser ==
    \E user \in Participants :
      LET pre == Ctx(storage, token_bal)
          res == Committed(pre, get_tips_for_user(pre, user))
      IN /\ storage' = res.st
         /\ token_bal' = res.bal
         /\ last' = [op |-> "get_tips_for_user", err |-> res.err,
                     user |-> user, events |-> res.events, ret |-> res.ret]
         /\ UNCHANGED <<ledger, accepted>>

GetTotalTipsCount ==
    LET pre == Ctx(storage, token_bal)
        res == Committed(pre, get_total_tips_count(pre))
    IN /\ storage' = res.st
       /\ token_bal' = res.bal
       /\ last' = [op |-> "get_total_tips_count", err |-> res.err,
                   events |-> res.events, ret |-> res.ret]
       /\ UNCHANGED <<ledger, accepted>>

\* the network closes a ledger: sequence and timestamp move on
CloseLedger ==
    /\ ledger.sequence < MaxLedger
    /\ ledger' = [sequence |-> ledger.sequence + 1,
                  timestamp |-> ledger.timestamp + 5]
    /\ UNCHANGED <<storage, token_bal, last, accepted>>

Next ==
    \/ SendTip
    \/ Withdraw
    \/ GetBalance
    \/ GetUserProfile
    \/ GetTipsForUser
    \/ GetTotalTipsCount
    \/ CloseLedger

Spec == Init /\ [][Next]_vars

\* ------------------------------------------------------------- properties
BalanceKeys == {balance_key(p, t) : p \in Participants, t \in Tokens}

\* the tip log as stored
TipLog == all_tips(storage)

\* the Tip record an accepted call must have produced
TipOf(a) == [from |-> a.from, to |-> a.to, amount |-> a.amount,
             message |-> a.message, timestamp |-> a.timestamp,
             token |-> a.token]

IsPrefix(s, t) == Len(s) <= Len(t) /\ \A i \in 1..Len(s) : s[i] = t[i]

\* the sum of amount over the tips whose field `side` is p
RECURSIVE SumFor(_, _, _)
SumFor(tips, side, p) ==
    IF tips = <<>> THEN 0
    ELSE (IF Head(tips)[side] = p THEN Head(tips).amount ELSE 0)
         + SumFor(Tail(tips), side, p)

\* C1: every persisted Balance record satisfies
\* total_received = available + withdrawn, in every reachable state.
C1_BalanceEquation ==
    \A k \in BalanceKeys :
        has(storage, k) =>
            storage[k].total_received = storage[k].available + storage[k].withdrawn

\* a partly withdrawn balance, seen right after a failed call
C1_Witness ==
    /\ last.err # NoError
    /\ \E k \in BalanceKeys :
          has(storage, k) /\ storage[k].withdrawn > 0 /\ storage[k].available > 0

\* C2: every persisted Balance record has available >= 0 and withdrawn >= 0,
\* whatever amounts the callers pass.
C2_NonNegative ==
    \A k \in BalanceKeys :
        has(storage, k) => storage[k].available >= 0 /\ storage[k].withdrawn >= 0

\* a withdraw with amount <= 0 was rejected while a balance is fully withdrawn
C2_Witness ==
    /\ last.op = "withdraw" /\ last.err = "InvalidAmountError"
    /\ \E k \in BalanceKeys :
          has(storage, k) /\ storage[k].available = 0 /\ storage[k].withdrawn > 0

\* C3: the tip log is the sequence of accepted send_tip calls in call order,
\* get_total_tips_count is their number, and every step leaves the old log
\* a prefix of the new one.
C3_LogIsAccepted ==
    /\ Len(TipLog) = Len(accepted)
    /\ \A i \in 1..Len(accepted) : TipLog[i] = TipOf(accepted[i])
    /\ get_total_tips_count(Ctx(storage, token_bal)).ret = Len(accepted)

C3_TipLog ==
    /\ [](C3_LogIsAccepted)
    /\ [][IsPrefix(all_tips(storage), all_tips(storage'))]_vars

\* two tips are logged, then a send_tip fails
C3_Witness ==
    /\ Len(accepted) >= 2
    /\ accepted[1] # accepted[2]
    /\ last.op = "send_tip" /\ last.err # NoError

\* C4: for every participant the profile's total_sent is the sum of the
\* logged amounts it sent and total_received the sum of those it received;
\* an absent profile counts as zero.
C4_ProfileTotals ==
    \A p \in Participants :
        LET sent == IF has(storage, profile_key(p))
                    THEN storage[profile_key(p)].total_sent ELSE 0
            recv == IF has(storage, profile_key(p))
                    THEN storage[profile_key(p)].total_received ELSE 0
        IN /\ sent = SumFor(TipLog, "from", p)
           /\ recv = SumFor(TipLog, "to", p)

\* a participant that has both received and sent
C4_Witness ==
    \E p \in Participants :
        /\ has(storage, profile_key(p))
        /\ storage[profile_key(p)].total_sent > 0
        /\ storage[profile_key(p)].total_received > 0

C7_InsufficientRejected ==
    [][last'.op = "withdraw" =>
       \A user \in Participants, token \in Tokens, amount \in Amounts,
          accepts \in BOOLEAN :
          ( /\ amount > 0
            /\ has(storage, balance_key(user, token))
            /\ amount > storage[balance_key(user, token)].available
            /\ WithdrawCall(user, user, token, amount, accepts) )
          => ( /\ last'.err = "InsufficientBalanceError"
               /\ storage' = storage
               /\ token_bal' = token_bal )]_vars

\* a withdraw was rejected for exceeding a positive available amount
C7_Witness ==
    /\ last.op = "withdraw" /\ last.err = "InsufficientBalanceError"
    /\ \E k \in BalanceKeys : has(storage, k) /\ storage[k].available > 0

\* (user, token) has never received a tip
NeverReceived(user, token) ==
    \A i \in 1..Len(accepted) :
        ~(accepted[i].to = user /\ accepted[i].token = token)

\* C8: an authorized withdraw of a positive amount fails with NoBalanceError
\* whenever (user, token) never received a tip; get_balance returns the
\* zero record for a missing Balance and writes nothing.
C8_NoBalance ==
    [][ /\ last'.op = "withdraw" =>
           \A user \in Participants, token \in Tokens, amount \in Amounts,
              accepts \in BOOLEAN :
              ( /\ amount > 0
                /\ NeverReceived(user, token)
                /\ WithdrawCall(user, user, token, amount, accepts) )
              => last'.err = "NoBalanceError"
        /\ last'.op = "get_balance" =>
              /\ storage' = storage
              /\ ~has(storage, balance_key(last'.user, last'.token)) =>
                    last'.ret = [total_received |-> 0, available |-> 0,
                                 withdrawn |-> 0, token |-> last'.token]
      ]_vars

\* a withdraw found no Balance although other records exist
C8_Witness ==
    /\ last.op = "withdraw" /\ last.err = "NoBalanceError"
    /\ Len(TipLog) >= 1

\* the failure of send_tip on the given arguments in the current state
SendTipErr(caller, from, to, token, amount, message, accepts) ==
    send_tip(Ctx(storage, token_bal), ledger, caller, from, to, token,
             amount, message, accepts).err

\* C9: send_tip returns only if the caller is `from`, amount > 0, from # to
\* and the message has at most 256 characters; a call that breaks one of
\* them fails with the failure of the first one it breaks, in the order
\* authorization, amount, self-tip, message length.
C9_Preconditions ==
    /\ (last.op = "send_tip" /\ last.err = NoError) =>
          /\ last.caller = last.user
          /\ last.amount > 0
          /\ last.user # last.to
          /\ last.message.len <= 256
    /\ \A caller \in Participants, from \in Participants, to \in Participants,
          token \in Tokens, amount \in Amounts, message \in Messages,
          accepts \in BOOLEAN :
          LET r == SendTipErr(caller, from, to, token, amount, message, accepts)
          IN /\ caller # from => r = "AuthorizationError"
             /\ (caller = from /\ amount <= 0) => r = "InvalidAmountError"
             /\ (caller = from /\ amount > 0 /\ from = to) => r = "SelfTipError"
             /\ (caller = from /\ amount > 0 /\ from # to /\ message.len > 256)
                   => r = "MessageTooLongError"
             /\ (caller = from /\ amount > 0 /\ from # to /\ message.len <= 256)
                   => r \notin {"AuthorizationError", "InvalidAmountError",
                                "SelfTipError", "MessageTooLongError"}

\* a message of 256 was logged and a later one of 257 refused
C9_Witness ==
    /\ last.op = "send_tip" /\ last.err = "MessageTooLongError"
    /\ \E i \in 1..Len(TipLog) : TipLog[i].message.len = 256

\* the stored profile of p, or the one its first update starts from
ProfileOrNew(st, p, now) ==
    IF has(st, profile_key(p)) THEN st[profile_key(p)]
    ELSE [tips_sent |-> 0, tips_received |-> 0, total_sent |-> 0,
          total_received |-> 0, first_interaction |-> now]

BalanceOrNew(st, p, t) ==
    IF has(st, balance_key(p, t)) THEN st[balance_key(p, t)]
    ELSE [total_received |-> 0, available |-> 0, withdrawn |-> 0, token |-> t]

\* C10: an accepted send_tip appends one Tip, raises total_received and
\* available of Balance(to, token) by amount, raises tips_sent/total_sent of
\* the sender's profile and tips_received/total_received of the recipient's,
\* and changes nothing else; from the empty state, A tipping B 100 of T
\* gives Balance(B,T) = (100, 100, 0) and the profile counts of scenario 1.
C10_SendTipEffect ==
    [][(accepted' # accepted) =>
        LET a == last'
            now == ledger.timestamp
            b == BalanceOrNew(storage, a.to, a.token)
            ps == ProfileOrNew(storage, a.user, now)
            pr == ProfileOrNew(storage, a.to, now)
            touched == {tip_key, balance_key(a.to, a.token),
                        profile_key(a.user), profile_key(a.to)}
        IN /\ a.op = "send_tip" /\ a.err = NoError
           /\ all_tips(storage') =
                 Append(all_tips(storage),
                        [from |-> a.user, to |-> a.to, amount |-> a.amount,
                         message |-> a.message, timestamp |-> now,
                         token |-> a.token])
           /\ storage'[balance_key(a.to, a.token)] =
                 [total_received |-> b.total_received + a.amount,
                  available |-> b.available + a.amount,
                  withdrawn |-> b.withdrawn, token |-> b.token]
           /\ storage'[profile_key(a.user)] =
                 [ps EXCEPT !.tips_sent = @ + 1, !.total_sent = @ + a.amount]
           /\ storage'[profile_key(a.to)] =
                 [pr EXCEPT !.tips_received = @ + 1,
                            !.total_received = @ + a.amount]
           /\ DOMAIN storage' = DOMAIN storage \cup touched
           /\ \A k \in DOMAIN storage \ touched : storage'[k] = storage[k]
           /\ (storage = << >> /\ a.user = "A" /\ a.to = "B" /\ a.token = "T"
               /\ a.amount = 100) =>
                 /\ storage'[balance_key("B", "T")] =
                       [total_received |-> 100, available |-> 100,
                        withdrawn |-> 0, token |-> "T"]
                 /\ storage'[profile_key("A")].tips_sent = 1
                 /\ storage'[profile_key("A")].total_sent = 100
                 /\ storage'[profile_key("B")].tips_received = 1
                 /\ storage'[profile_key("B")].total_received = 100
      ]_vars

\* scenario 1: the first accepted call is A tipping B 100 of T
C10_Witness ==
    /\ Len(accepted) = 1
    /\ last.op = "send_tip" /\ last.err = NoError
    /\ last.user = "A" /\ last.to = "B" /\ last.token = "T" /\ last.amount = 100
    /\ storage[balance_key("B", "T")].available = 100

\* a step of an invocation: every invocation records itself in `last`, and
\* the only other step, closing a ledger, moves the ledger on
Invoked(op) == last'.op = op /\ ledger' = ledger

ReadOps == {"get_balance", "get_user_profile", "get_tips_for_user",
            "get_total_tips_count"}

\* C11: an accepted withdraw(user, token, amount) lowers available of
\* Balance(user, token) by exactly amount, raises withdrawn by exactly amount
\* and leaves total_received (and the token) as they were; when B holds 100
\* of T received in one tip and withdraws 40, Balance(B,T) becomes
\* (available 60, withdrawn 40, total_received 100).
C11_WithdrawEffect ==
    [][(Invoked("withdraw") /\ last'.err = NoError) =>
         LET a == last'
             key == balance_key(a.user, a.token)
         IN /\ has(storage, key) /\ has(storage', key)
            /\ storage'[key].available = storage[key].available - a.amount
            /\ storage'[key].withdrawn = storage[key].withdrawn + a.amount
            /\ storage'[key].total_received = storage[key].total_received
            /\ storage'[key].token = storage[key].token
            /\ (a.user = "B" /\ a.token = "T" /\ a.amount = 40
                /\ storage[key] = [total_received |-> 100, available |-> 100,
                                   withdrawn |-> 0, token |-> "T"]) =>
                  storage'[key] = [total_received |-> 100, available |-> 60,
                                   withdrawn |-> 40, token |-> "T"]
    ]_vars

\* scenario 2: B received 100 of T and has just withdrawn 40
C11_Witness ==
    /\ last.op = "withdraw" /\ last.err = NoError
    /\ last.user = "B" /\ last.token = "T" /\ last.amount = 40
    /\ storage[balance_key("B", "T")] =
          [total_received |-> 100, available |-> 60, withdrawn |-> 40,
           token |-> "T"]

\* the invocation of this step repeats the previous invocation: the same
\* read with the same arguments.  Whatever happened between the two wrote
\* nothing, since only closing a ledger leaves `last` alone.
RepeatedRead ==
    /\ ledger' = ledger
    /\ last'.op \in {"get_balance", "get_user_profile", "get_tips_for_user"}
    /\ last.op = last'.op
    /\ last.user = last'.user
    /\ last'.op = "get_balance" => last.token = last'.token

\* C12 as stated: a read repeated with no write in between returns the
\* identical result, get_user_profile without a persisted profile included,
\* even when the Clock advances between the two calls.
C12_Original ==
    [][RepeatedRead => last'.ret = last.ret]_vars

\* C12: a read (get_balance, get_user_profile, get_tips_for_user) repeated
\* with the same arguments and no write in between returns the identical
\* result, except that get_user_profile for a participant without a persisted
\* profile returns the zero profile with first_interaction equal to the Clock
\* value at each call, so the two results differ in first_interaction exactly
\* when the Clock advanced between the calls.
C12_ReadsRepeat ==
    [][RepeatedRead =>
         IF last'.op = "get_user_profile" /\ ~has(storage, profile_key(last'.user))
         THEN /\ last'.ret = [last.ret EXCEPT !.first_interaction = ledger.timestamp]
              /\ last'.ret = [tips_sent |-> 0, tips_received |-> 0,
                              total_sent |-> 0, total_received |-> 0,
                              first_interaction |-> ledger.timestamp]
              /\ last.ret.first_interaction <= ledger.timestamp
         ELSE last'.ret = last.ret
    ]_vars

\* a profile query for a participant that has no persisted profile, answered
\* after the Clock has advanced
C12_Witness ==
    /\ last.op = "get_user_profile" /\ last.err = NoError
    /\ ~has(storage, profile_key(last.user))
    /\ last.ret.first_interaction = ledger.timestamp
    /\ ledger.timestamp > 0

\* C13: get_balance, get_user_profile, get_tips_for_user and
\* get_total_tips_count leave the whole stored state unchanged (the Tip Log,
\* every Balance, every UserProfile and which records exist), move no funds
\* through the Transfer Service, publish nothing and never fail; for data
\* that is missing they return the zero record, the empty list or 0.
C13_ReadsAreReadOnly ==
    [][(last'.op \in ReadOps /\ ledger' = ledger) =>
         /\ storage' = storage
         /\ DOMAIN storage' = DOMAIN storage
         /\ token_bal' = token_bal
         /\ accepted' = accepted
         /\ last'.err = NoError
         /\ last'.events = << >>
         /\ last'.op = "get_balance" =>
              last'.ret = BalanceOrNew(storage, last'.user, last'.token)
         /\ last'.op = "get_user_profile" =>
              last'.ret = ProfileOrNew(storage, last'.user, ledger.timestamp)
         /\ (last'.op = "get_tips_for_user" /\ ~has(storage, tip_key)) =>
              last'.ret = << >>
         /\ last'.op = "get_total_tips_count" => last'.ret = Len(TipLog)
    ]_vars

\* a balance query for a pair that has no Balance record, asked when other
\* records exist
C13_Witness ==
    /\ last.op = "get_balance" /\ last.err = NoError
    /\ ~has(storage, balance_key(last.user, last.token))
    /\ Len(TipLog) > 0
    /\ last.ret.available = 0

\* the positions of the Tip Log whose recipient is p
ReceivedAt(p) == {i \in 1..Len(TipLog) : TipLog[i].to = p}

\* the k-th smallest position of a set of positions
NthOf(positions, k) ==
    CHOOSE i \in positions : Cardinality({j \in positions : j <= i}) = k

\* C14: get_tips_for_user(p) returns exactly the Tip Log entries whose `to`
\* is p, each once and in the order they have in the log; a tip p sent to
\* someone else is not among them.
C14_TipsForUser ==
    last.op = "get_tips_for_user" =>
        LET p == last.user
            at == ReceivedAt(p)
        IN /\ Len(last.ret) = Cardinality(at)
           /\ \A k \in 1..Len(last.ret) : last.ret[k] = TipLog[NthOf(at, k)]
           /\ \A k \in 1..Len(last.ret) :
                 last.ret[k].to = p /\ last.ret[k].from # p

\* two different tips returned for a participant who also sent a tip, which
\* is in the log but not in the answer
C14_Witness ==
    /\ last.op = "get_tips_for_user"
    /\ Len(last.ret) = 2 /\ last.ret[1] # last.ret[2]
    /\ Len(TipLog) = 3
    /\ \E i \in 1..Len(TipLog) : TipLog[i].from = last.user

\* C15: send_tip returns the unique id of the created tip: any two distinct
\* accepted send_tip calls return different tip ids, two calls accepted
\* within the same ledger included.
C15_UniqueTipIds ==
    \A i, j \in 1..Len(accepted) :
        i # j => accepted[i].id # accepted[j].id

\* C16: nothing is taken from a participant without that participant's
\* authorization: available of Balance(p, token) decreases only in an
\* accepted withdraw whose authorizing caller is p and which names p and the
\* token, and funds leave p's own token account only in an accepted send_tip
\* whose authorizing caller is p and whose sender is p.
C16_Authorized ==
    [][\A p \in Participants, t \in Tokens :
         /\ BalanceOrNew(storage', p, t).available
              < BalanceOrNew(storage, p, t).available =>
              /\ Invoked("withdraw") /\ last'.err = NoError
              /\ last'.caller = p /\ last'.user = p /\ last'.token = t
         /\ token_bal'[t][p] < token_bal[t][p] =>
              /\ Invoked("send_tip") /\ last'.err = NoError
              /\ last'.caller = p /\ last'.user = p /\ last'.token = t
              /\ token_bal[t][p] - token_bal'[t][p] = last'.amount
    ]_vars

\* the recipient of a tip has authorized and made a withdrawal of part of
\* it, after the sender had authorized the tip
C16_Witness ==
    /\ last.op = "withdraw" /\ last.err = NoError
    /\ last.caller = last.user
    /\ \E i \in 1..Len(accepted) :
          /\ accepted[i].to = last.user /\ accepted[i].token = last.token
          /\ token_bal[last.token][accepted[i].from] < InitFunds
    /\ storage[balance_key(last.user, last.token)].available > 0
    /\ storage[balance_key(last.user, last.token)].withdrawn > 0

\* C17: the tip ids returned by successive accepted send_tip calls never
\* decrease, the ledger sequence number never decreasing.
C17_TipIdMonotonic ==
    /\ [](\A i, j \in 1..Len(accepted) :
            i <= j => accepted[i].id <= accepted[j].id)
    /\ [][ledger'.sequence >= ledger.sequence]_vars
    /\ [][(Invoked("send_tip") /\ last'.err = NoError) =>
            accepted'[Len(accepted')].id = last'.ret]_vars

\* two accepted calls in different ledgers: the later id is the larger
C17_Witness ==
    /\ Len(accepted) >= 2
    /\ accepted[1].id < accepted[Len(accepted)].id
    /\ last.op = "send_tip" /\ last.err = NoError
    /\ last.ret = accepted[Len(accepted)].id

\* the accepted send_tip calls in which p is the sender or the recipient
Involving(p) ==
    {i \in 1..Len(accepted) : accepted[i].from = p \/ accepted[i].to = p}

\* C18: a participant has a persisted UserProfile exactly from the first
\* accepted send_tip in which it is sender or recipient; first_interaction is
\* the Clock value of that call and no later send_tip, withdraw, read or
\* advance of the Clock changes it.
C18_FirstInteraction ==
    /\ [](\A p \in Participants :
            /\ has(storage, profile_key(p)) <=> Involving(p) # {}
            /\ has(storage, profile_key(p)) =>
                 storage[profile_key(p)].first_interaction =
                   accepted[NthOf(Involving(p), 1)].timestamp)
    /\ [][\A p \in Participants :
            has(storage, profile_key(p)) =>
              /\ has(storage', profile_key(p))
              /\ storage'[profile_key(p)].first_interaction =
                   storage[profile_key(p)].first_interaction]_vars

\* a participant whose profile was created before the Clock advanced has
\* since sent and received tips and made a withdrawal
C18_Witness ==
    \E p \in Participants :
        /\ has(storage, profile_key(p))
        /\ storage[profile_key(p)].first_interaction < ledger.timestamp
        /\ \E i, j \in Involving(p) :
              /\ accepted[i].timestamp > storage[profile_key(p)].first_interaction
              /\ accepted[j].timestamp > storage[profile_key(p)].first_interaction
              /\ accepted[i].from = p /\ accepted[j].to = p
        /\ \E t \in Tokens : BalanceOrNew(storage, p, t).withdrawn > 0

\* the sum of available over the Balance records of a token
TotalAvailable(t) ==
    LET avail(p) == BalanceOrNew(storage, p, t).available
        sum[ps \in SUBSET Participants] ==
            IF ps = {} THEN 0
            ELSE LET p == CHOOSE q \in ps : TRUE
                 IN avail(p) + sum[ps \ {p}]
    IN sum[Participants]

\* C19: the custodial account starting empty and moved only by send_tip and
\* withdraw, the contract holds of every token exactly the sum of available
\* over all participants; so a withdraw that passes the available >= amount
\* check finds the funds in custody, and completes when the token contract
\* lets the transfer through.
C19_Custody ==
    \A t \in Tokens :
        /\ token_bal[t][Contract] = TotalAvailable(t)
        /\ \A p \in Participants, amount \in Amounts :
              withdraw_check(storage, p, p, t, amount) = NoError =>
                /\ token_bal[t][Contract] >= amount
                /\ withdraw(Ctx(storage, token_bal), ledger, p, p, t, amount,
                            TRUE).err = NoError

\* custody of a token split between two participants, after a withdrawal
C19_Witness ==
    \E t \in Tokens :
        /\ token_bal[t][Contract] > 0
        /\ \A p \in Participants : BalanceOrNew(storage, p, t).available > 0
        /\ \E p \in Participants : BalanceOrNew(storage, p, t).withdrawn > 0
        /\ \E p \in Participants :
              withdraw_check(storage, p, p, t, 40) = NoError

\* the sum of total_received over the Balance records of a participant
ReceivedInAllTokens(p) ==
    LET recv(t) == BalanceOrNew(storage, p, t).total_received
        sum[ts \in SUBSET Tokens] ==
            IF ts = {} THEN 0
            ELSE LET t == CHOOSE u \in ts : TRUE
                 IN recv(t) + sum[ts \ {t}]
    IN sum[Tokens]

ProfileKeys == {profile_key(p) : p \in Participants}

\* C20: for every participant p, total_received of UserProfile(p) is the sum
\* over all tokens of total_received of Balance(p, token), and tips_received
\* is the number of tips get_tips_for_user(p) returns (a missing record
\* counting as zero); a withdraw changes neither a UserProfile nor the Tip
\* Log.
C20_Reconciliation ==
    /\ [](\A p \in Participants :
            LET profile == ProfileOrNew(storage, p, ledger.timestamp)
                tips == get_tips_for_user(Ctx(storage, token_bal), p).ret
            IN /\ profile.total_received = ReceivedInAllTokens(p)
               /\ profile.tips_received = Len(tips))
    /\ [][Invoked("withdraw") =>
            /\ all_tips(storage') = all_tips(storage)
            /\ has(storage', tip_key) <=> has(storage, tip_key)
            /\ \A k \in ProfileKeys :
                  /\ has(storage', k) <=> has(storage, k)
                  /\ has(storage, k) => storage'[k] = storage[k]]_vars

\* a participant who received tips in two tokens has just withdrawn one
C20_Witness ==
    /\ last.op = "withdraw" /\ last.err = NoError
    /\ \A t \in Tokens :
          BalanceOrNew(storage, last.user, t).total_received > 0
    /\ storage[profile_key(last.user)].tips_received = 2
    /\ storage[profile_key(last.user)].total_received = 80

====
